---- MODULE Spec2Model ----
(***************************************************************************)
(* Model of commandments (main.py): a monthly goal tracker.  One run of    *)
(* main() is a process that passes the day gate, loads state.json, asks    *)
(* the reflection questions, reads new goals and writes state.json.        *)
(*                                                                         *)
(* Text is a sequence of one-character strings, so that formatting and     *)
(* parsing (date.isoformat / date.fromisoformat, int(), the JSON scalars)  *)
(* are computed and not assumed.  The state file is its JSON document,     *)
(* whose scalars are kept as their JSON token text.                        *)
(***************************************************************************)
EXTENDS Integers, Sequences, FiniteSets, TLC

(* ---------------------------- bounds ----------------------------------- *)

\* the clock runs from Epoch to Epoch + MaxDay days
MaxDay == 2

\* goal entry stops being offered once state.goals holds this many goals
MaxGoals == 2

\* processes: process 1 runs alone in Spec
Procs == {1, 2}

(* ---------------------------- dates ------------------------------------ *)

MkDate(y, m, d) == [year |-> y, month |-> m, day |-> d]

\* Python's None in a field of type "date | None"
NoneDate == MkDate(0, 0, 0)

Epoch == MkDate(2023, 12, 31)

IsLeap(y) == (y % 4 = 0 /\ y % 100 # 0) \/ y % 400 = 0

DaysInMonth(y, m) ==
    CASE m \in {1, 3, 5, 7, 8, 10, 12} -> 31
      [] m \in {4, 6, 9, 11} -> 30
      [] OTHER -> IF IsLeap(y) THEN 29 ELSE 28

NextDay(d) ==
    IF d.day < DaysInMonth(d.year, d.month) THEN MkDate(d.year, d.month, d.day + 1)
    ELSE IF d.month < 12 THEN MkDate(d.year, d.month + 1, 1)
    ELSE MkDate(d.year + 1, 1, 1)

PrevDay(d) ==
    IF d.day > 1 THEN MkDate(d.year, d.month, d.day - 1)
    ELSE IF d.month > 1 THEN MkDate(d.year, d.month - 1, DaysInMonth(d.year, d.month - 1))
    ELSE MkDate(d.year - 1, 12, 31)

RECURSIVE AddDays(_, _)
\* date + timedelta(days=n)
AddDays(d, n) ==
    IF n = 0 THEN d
    ELSE IF n > 0 THEN AddDays(NextDay(d), n - 1)
    ELSE AddDays(PrevDay(d), n + 1)

\* timedelta(days=30)
Delta30 == 30

LastDay == AddDays(Epoch, MaxDay)

(* ---------------------------- text ------------------------------------- *)

Digits == <<"0", "1", "2", "3", "4", "5", "6", "7", "8", "9">>

IsDigit(c) == \E n \in 1..10 : Digits[n] = c

DigitVal(c) == (CHOOSE n \in 1..10 : Digits[n] = c) - 1

RECURSIVE NatToChars(_)
NatToChars(n) ==
    IF n < 10 THEN <<Digits[n + 1]>>
    ELSE NatToChars(n \div 10) \o <<Digits[(n % 10) + 1]>>

\* str(n) for an int, which is also the JSON number text of n
IntToChars(n) == IF n < 0 THEN <<"-">> \o NatToChars(-n) ELSE NatToChars(n)

RECURSIVE CharsToNat(_)
CharsToNat(s) ==
    IF s = <<>> THEN 0
    ELSE 10 * CharsToNat(SubSeq(s, 1, Len(s) - 1)) + DigitVal(s[Len(s)])

AllDigits(s) == s # <<>> /\ \A i \in 1..Len(s) : IsDigit(s[i])

IsSpace(c) == c \in {" ", "\t"}

RECURSIVE LStrip(_)
LStrip(s) == IF s # <<>> /\ IsSpace(s[1]) THEN LStrip(Tail(s)) ELSE s

RECURSIVE RStrip(_)
RStrip(s) ==
    IF s # <<>> /\ IsSpace(s[Len(s)]) THEN RStrip(SubSeq(s, 1, Len(s) - 1)) ELSE s

Strip(s) == RStrip(LStrip(s))

\* int(text): surrounding blanks and one sign are accepted, everything else
\* but decimal digits raises ValueError
IntBody(s) ==
    LET t == Strip(s)
    IN  IF t # <<>> /\ t[1] \in {"+", "-"} THEN Tail(t) ELSE t

IntParses(s) == AllDigits(IntBody(s))

ParseInt(s) ==
    LET t == Strip(s)
    IN  IF t # <<>> /\ t[1] = "-" THEN 0 - CharsToNat(IntBody(s))
        ELSE CharsToNat(IntBody(s))

DigitAt(n, p) == Digits[((n \div p) % 10) + 1]

\* variant: the fields are written without zero padding
IsoFormat_Unpadded(d) ==
    NatToChars(d.year) \o <<"-">> \o NatToChars(d.month) \o <<"-">> \o NatToChars(d.day)

\* date.isoformat(): YYYY-MM-DD
IsoFormat(d) ==
    <<DigitAt(d.year, 1000), DigitAt(d.year, 100), DigitAt(d.year, 10), DigitAt(d.year, 1), "-",
      DigitAt(d.month, 10), DigitAt(d.month, 1), "-",
      DigitAt(d.day, 10), DigitAt(d.day, 1)>>

\* date.fromisoformat(text) raises ValueError unless this holds
IsoParses(s) ==
    /\ Len(s) = 10
    /\ s[5] = "-" /\ s[8] = "-"
    /\ AllDigits(SubSeq(s, 1, 4)) /\ AllDigits(SubSeq(s, 6, 7)) /\ AllDigits(SubSeq(s, 9, 10))
    /\ LET y == CharsToNat(SubSeq(s, 1, 4))
           m == CharsToNat(SubSeq(s, 6, 7))
           d == CharsToNat(SubSeq(s, 9, 10))
       IN  y >= 1 /\ m \in 1..12 /\ d >= 1 /\ d <= DaysInMonth(y, m)

FromIsoFormat(s) ==
    MkDate(CharsToNat(SubSeq(s, 1, 4)), CharsToNat(SubSeq(s, 6, 7)),
           CharsToNat(SubSeq(s, 9, 10)))

(* ---------------------------- JSON scalars ----------------------------- *)

JNull == <<"n", "u", "l", "l">>
JTrue == <<"t", "r", "u", "e">>
JFalse == <<"f", "a", "l", "s", "e">>

Quote == "\""
Backslash == "\\"

RECURSIVE Escape(_)
Escape(s) ==
    IF s = <<>> THEN <<>>
    ELSE IF s[1] \in {Quote, Backslash} THEN <<Backslash, s[1]>> \o Escape(Tail(s))
    ELSE <<s[1]>> \o Escape(Tail(s))

RECURSIVE Unescape(_)
Unescape(s) ==
    IF s = <<>> THEN <<>>
    ELSE IF s[1] = Backslash /\ Len(s) >= 2 THEN <<s[2]>> \o Unescape(Tail(Tail(s)))
    ELSE <<s[1]>> \o Unescape(Tail(s))

\* a str as a JSON string token
JStr(s) == <<Quote>> \o Escape(s) \o <<Quote>>

IsJStr(tok) == Len(tok) >= 2 /\ tok[1] = Quote /\ tok[Len(tok)] = Quote

\* the str a JSON string token decodes to
StrOf(tok) == Unescape(SubSeq(tok, 2, Len(tok) - 1))

\* an int as a JSON number token and back
JInt(n) == IntToChars(n)

IntOf(tok) == IF tok[1] = "-" THEN 0 - CharsToNat(Tail(tok)) ELSE CharsToNat(tok)

\* was_successful (None / True / False) as a JSON literal and back
JOptBool(b) == CASE b = "None" -> JNull [] b = "True" -> JTrue [] b = "False" -> JFalse

OptBoolOf(tok) == CASE tok = JNull -> "None" [] tok = JTrue -> "True" [] tok = JFalse -> "False"

(* ---------------------------- data model ------------------------------- *)

SuccessCriteria(nc, pf) == [num_checkpoints |-> nc, permitted_failures |-> pf]

Goal(name, sc, starts, ends, ws) ==
    [name |-> name, success_criteria |-> sc, starts_at |-> starts, ends_at |-> ends,
     was_successful |-> ws]

State(goals, glu) == [goals |-> goals, goals_last_updated |-> glu]

EmptyState == State(<<>>, NoneDate)

(* ---------------------------- the state file --------------------------- *)

\* json.dump(state, cls=EnhancedJSONEncoder): dataclasses become objects,
\* dates become their isoformat() text
EncodeDate(d) == JStr(IsoFormat(d))

EncodeGoal(g) ==
    [name |-> JStr(g.name),
     success_criteria |->
        [num_checkpoints |-> JInt(g.success_criteria.num_checkpoints),
         permitted_failures |-> JInt(g.success_criteria.permitted_failures)],
     starts_at |-> EncodeDate(g.starts_at),
     ends_at |-> EncodeDate(g.ends_at),
     was_successful |-> JOptBool(g.was_successful)]

\* variant: goals_last_updated is always formatted as a date
EncodeState_NoNull(s) ==
    [goals |-> [i \in 1..Len(s.goals) |-> EncodeGoal(s.goals[i])],
     goals_last_updated |-> EncodeDate(s.goals_last_updated)]

EncodeState(s) ==
    [goals |-> [i \in 1..Len(s.goals) |-> EncodeGoal(s.goals[i])],
     goals_last_updated |->
        IF s.goals_last_updated = NoneDate THEN JNull
        ELSE EncodeDate(s.goals_last_updated)]

\* placeholder document of a file that holds no JSON document
NullDoc == [goals |-> <<>>, goals_last_updated |-> <<>>]

MissingFile == [kind |-> "missing", doc |-> NullDoc]

\* a file of zero bytes, and a file of text that is not JSON
EmptyFile == [kind |-> "empty", doc |-> NullDoc]
GarbageFile == [kind |-> "garbage", doc |-> NullDoc]

JsonFile(doc) == [kind |-> "json", doc |-> doc]

\* date.fromisoformat(x) returns a date: x is a str in YYYY-MM-DD form
\* (TypeError for a non-str, ValueError for another text)
DateDecodes(tok) == IsJStr(tok) /\ IsoParses(StrOf(tok))

DecodeDate(tok) == FromIsoFormat(StrOf(tok))

GoalDecodes(gj) == DateDecodes(gj.starts_at) /\ DateDecodes(gj.ends_at)

DecodeGoal(gj) ==
    Goal(StrOf(gj.name),
         SuccessCriteria(IntOf(gj.success_criteria.num_checkpoints),
                         IntOf(gj.success_criteria.permitted_failures)),
         DecodeDate(gj.starts_at), DecodeDate(gj.ends_at),
         OptBoolOf(gj.was_successful))

DocDecodes(doc) ==
    /\ \A i \in 1..Len(doc.goals) : GoalDecodes(doc.goals[i])
    /\ doc.goals_last_updated = JNull \/ DateDecodes(doc.goals_last_updated)

DecodeState(doc) ==
    State([i \in 1..Len(doc.goals) |-> DecodeGoal(doc.goals[i])],
          IF doc.goals_last_updated # JNull THEN DecodeDate(doc.goals_last_updated)
          ELSE NoneDate)

\* State.write_to_state_file: the file as it is after the call
WriteToStateFile(s) == JsonFile(EncodeState(s))

\* variant: one handler for both exceptions, a file that is not JSON is replaced
FromStateFile_Repair(f) ==
    CASE f.kind \in {"missing", "empty", "garbage"} ->
            [result |-> "state", state |-> EmptyState, file |-> WriteToStateFile(EmptyState),
             wrote |-> 1]
      [] f.kind = "json" /\ DocDecodes(f.doc) ->
            [result |-> "state", state |-> DecodeState(f.doc), file |-> f, wrote |-> 0]
      [] OTHER ->
            [result |-> "raise", state |-> EmptyState, file |-> f, wrote |-> 0]

\* variant: the empty State is returned and not written
FromStateFile_NoCreate(f) ==
    CASE f.kind = "missing" ->
            [result |-> "state", state |-> EmptyState, file |-> f, wrote |-> 0]
      [] f.kind \in {"empty", "garbage"} ->
            [result |-> "none", state |-> EmptyState, file |-> f, wrote |-> 0]
      [] f.kind = "json" /\ DocDecodes(f.doc) ->
            [result |-> "state", state |-> DecodeState(f.doc), file |-> f, wrote |-> 0]
      [] OTHER ->
            [result |-> "raise", state |-> EmptyState, file |-> f, wrote |-> 0]

\* State.from_state_file: what the call returns ("state": a State, "none":
\* None after the corruption message, "raise": an uncaught exception), the
\* state returned, and the file as it is after the call
FromStateFile(f) ==
    CASE f.kind = "missing" ->
            [result |-> "state", state |-> EmptyState, file |-> WriteToStateFile(EmptyState),
             wrote |-> 1]
      [] f.kind \in {"empty", "garbage"} ->
            [result |-> "none", state |-> EmptyState, file |-> f, wrote |-> 0]
      [] f.kind = "json" /\ DocDecodes(f.doc) ->
            [result |-> "state", state |-> DecodeState(f.doc), file |-> f, wrote |-> 0]
      [] OTHER ->
            [result |-> "raise", state |-> EmptyState, file |-> f, wrote |-> 0]

(* ---------------------------- inputs ----------------------------------- *)

Q == <<"q">>
Y == <<"y">>

\* answers typed at "Were you successful? (y/n/q): "
Answers == {Y, <<"n">>, Q, <<>>, <<"Y">>, <<"y", "e", "s">>}

\* texts typed at "Goal name: " other than q
GoalNames == {<<"R">>}

\* pairs of texts typed at the two integer prompts: fewer failures than
\* checkpoints, more failures than checkpoints, a text int() rejects at the
\* first prompt, and at the second
IntInputs ==
    {<< <<" ", "3">>, <<"1">> >>, << <<"1">>, <<" ", "3">> >>,
     << <<"x">>, <<"1">> >>, << <<"1">>, <<"x">> >>}

\* the first day of the month of Epoch, and of the month after it
PriorDate == AddDays(Epoch, 0 - Delta30)
FirstDate == NextDay(Epoch)

InitGoals ==
    {<<>>} \cup
    {<<Goal(<<"E">>, SuccessCriteria(30, 1), PriorDate, AddDays(PriorDate, Delta30), ws)>> :
        ws \in {"None", "True", "False"}}

InitStates == {State(gs, glu) : gs \in InitGoals, glu \in {NoneDate, PriorDate, FirstDate}}

\* JSON documents that json.load accepts and from_state_file cannot convert:
\* goals_last_updated is a text that is no date, or a number
BadDocs ==
    {[goals |-> <<>>, goals_last_updated |-> JStr(<<>>)],
     [goals |-> <<>>, goals_last_updated |-> JInt(5)]}

InitFiles ==
    {MissingFile, EmptyFile, GarbageFile}
        \cup {WriteToStateFile(s) : s \in InitStates}
        \cup {JsonFile(d) : d \in BadDocs}

(* ---------------------------- state ------------------------------------ *)

VARIABLES
    today,      \* date.today()
    file,       \* state.json
    pc,         \* where each process is: idle, gate, reflect, entry, done
    state,      \* main's local "state"
    unfinished, \* main's local "unfinished_goals", as positions in state.goals
    cursor,     \* position of the for loop in unfinished_goals
    exitcode,   \* exit status of the process (-1 while it runs)
    msg,        \* last message group printed
    nextdate,   \* the date printed in "Come back back on ..."
    rundate,    \* history: date.today() when the run started
    file0,      \* history: state.json when the run started
    loaded,     \* history: the State from_state_file returned
    answers,    \* history: the texts read by the reflection prompt
    entered,    \* history: the (name, checkpoints, failures) texts of appended goals
    nprompts,   \* history: input() calls of the run
    nreads,     \* history: opens of state.json for reading in the run
    nwrites,    \* history: opens of state.json for writing in the run
    prev        \* history: the date of the run before the current one if it returned 0

vars == <<today, file, pc, state, unfinished, cursor, exitcode, msg, nextdate, rundate,
          file0, loaded, answers, entered, nprompts, nreads, nwrites, prev>>

Init ==
    /\ today = Epoch
    /\ file \in InitFiles
    /\ pc = [p \in Procs |-> "idle"]
    /\ state = [p \in Procs |-> EmptyState]
    /\ unfinished = [p \in Procs |-> <<>>]
    /\ cursor = [p \in Procs |-> 1]
    /\ exitcode = [p \in Procs |-> -1]
    /\ msg = [p \in Procs |-> "none"]
    /\ nextdate = [p \in Procs |-> NoneDate]
    /\ rundate = [p \in Procs |-> NoneDate]
    /\ file0 = [p \in Procs |-> MissingFile]
    /\ loaded = [p \in Procs |-> EmptyState]
    /\ answers = [p \in Procs |-> <<>>]
    /\ entered = [p \in Procs |-> <<>>]
    /\ nprompts = [p \in Procs |-> 0]
    /\ nreads = [p \in Procs |-> 0]
    /\ nwrites = [p \in Procs |-> 0]
    /\ prev = [p \in Procs |-> NoneDate]

(* ---------------------------- main ------------------------------------- *)

\* variant: the gate looks at the month
IsFirstDay_Month(d) == d.month = 1

\* line 108: date.today().day != 1 is the wrong-day case
IsFirstDay(d) == d.day = 1

\* variant: the gate compares the date printed as the next one
AlreadyUpdated_Next(d, s) == AddDays(d, Delta30) = s.goals_last_updated

\* line 116: date.today() == state.goals_last_updated
AlreadyUpdated(d, s) == d = s.goals_last_updated

\* variant: every goal is selected
UnfinishedGoals_All(s) == [i \in 1..Len(s.goals) |-> i]

\* line 123: the goals with was_successful None, in list order
UnfinishedGoals(s) ==
    SelectSeq([i \in 1..Len(s.goals) |-> i],
              LAMBDA i : s.goals[i].was_successful = "None")

\* variant: the comparison is negated
Mark_Negated(success) == IF success # Y THEN "True" ELSE "False"

\* variant: only n marks a failure
Mark_OnlyN(success) == IF success = <<"n">> THEN "False" ELSE "True"

\* line 137: goal.was_successful = success == "y"
Mark(success) == IF success = Y THEN "True" ELSE "False"

\* variant: the two criteria are passed in the other order
NewGoal_Swapped(goal_name, checkpoints, failures, d) ==
    Goal(goal_name, SuccessCriteria(ParseInt(failures), ParseInt(checkpoints)),
         d, AddDays(d, Delta30), "None")

\* variant: permitted_failures is cut down to num_checkpoints
NewGoal_Clamped(goal_name, checkpoints, failures, d) ==
    Goal(goal_name,
         SuccessCriteria(ParseInt(checkpoints),
                         IF ParseInt(failures) > ParseInt(checkpoints)
                         THEN ParseInt(checkpoints) ELSE ParseInt(failures)),
         d, AddDays(d, Delta30), "None")

\* lines 147-156: the Goal built from the three texts read
NewGoal(goal_name, checkpoints, failures, d) ==
    Goal(goal_name, SuccessCriteria(ParseInt(checkpoints), ParseInt(failures)),
         d, AddDays(d, Delta30), "None")

\* the goals list with the goal at position i marked
SetOutcome(goals, i, ws) == [goals EXCEPT ![i].was_successful = ws]

Running(p) == pc[p] \in {"gate", "reflect", "entry"}

\* the process is started: python main.py
Invoke(p) ==
    /\ pc[p] \in {"idle", "done"}
    /\ pc' = [pc EXCEPT ![p] = "gate"]
    /\ prev' = [prev EXCEPT ![p] =
                    IF pc[p] = "done" /\ exitcode[p] = 0 THEN rundate[p] ELSE NoneDate]
    /\ rundate' = [rundate EXCEPT ![p] = today]
    /\ file0' = [file0 EXCEPT ![p] = file]
    /\ state' = [state EXCEPT ![p] = EmptyState]
    /\ loaded' = [loaded EXCEPT ![p] = EmptyState]
    /\ unfinished' = [unfinished EXCEPT ![p] = <<>>]
    /\ cursor' = [cursor EXCEPT ![p] = 1]
    /\ exitcode' = [exitcode EXCEPT ![p] = -1]
    /\ msg' = [msg EXCEPT ![p] = "none"]
    /\ nextdate' = [nextdate EXCEPT ![p] = NoneDate]
    /\ answers' = [answers EXCEPT ![p] = <<>>]
    /\ entered' = [entered EXCEPT ![p] = <<>>]
    /\ nprompts' = [nprompts EXCEPT ![p] = 0]
    /\ nreads' = [nreads EXCEPT ![p] = 0]
    /\ nwrites' = [nwrites EXCEPT ![p] = 0]
    /\ UNCHANGED <<today, file>>

\* lines 108-129: the day gate, the load, the already-updated gate and the
\* selection of the goals to reflect on, up to the first input()
Gate(p) ==
    /\ pc[p] = "gate"
    /\ IF ~IsFirstDay(today)
       THEN /\ pc' = [pc EXCEPT ![p] = "done"]
            /\ exitcode' = [exitcode EXCEPT ![p] = 1]
            /\ msg' = [msg EXCEPT ![p] = "wrongday"]
            /\ UNCHANGED <<file, state, loaded, unfinished, nextdate, nreads, nwrites>>
       ELSE LET r == FromStateFile(file)
            IN  /\ file' = r.file
                /\ nreads' = [nreads EXCEPT ![p] = @ + 1]
                /\ nwrites' = [nwrites EXCEPT ![p] = @ + r.wrote]
                /\ IF r.result = "none"
                   THEN /\ pc' = [pc EXCEPT ![p] = "done"]
                        /\ exitcode' = [exitcode EXCEPT ![p] = 1]
                        /\ msg' = [msg EXCEPT ![p] = "corrupted"]
                        /\ UNCHANGED <<state, loaded, unfinished, nextdate>>
                   ELSE IF r.result = "raise"
                   THEN /\ pc' = [pc EXCEPT ![p] = "done"]
                        /\ exitcode' = [exitcode EXCEPT ![p] = 1]
                        /\ msg' = [msg EXCEPT ![p] = "traceback"]
                        /\ UNCHANGED <<state, loaded, unfinished, nextdate>>
                   ELSE /\ state' = [state EXCEPT ![p] = r.state]
                        /\ loaded' = [loaded EXCEPT ![p] = r.state]
                        /\ IF AlreadyUpdated(today, r.state)
                           THEN /\ pc' = [pc EXCEPT ![p] = "done"]
                                /\ exitcode' = [exitcode EXCEPT ![p] = 1]
                                /\ msg' = [msg EXCEPT ![p] = "already"]
                                /\ nextdate' = [nextdate EXCEPT ![p] = AddDays(today, Delta30)]
                                /\ UNCHANGED unfinished
                           ELSE /\ unfinished' = [unfinished EXCEPT ![p] = UnfinishedGoals(r.state)]
                                /\ pc' = [pc EXCEPT ![p] =
                                            IF UnfinishedGoals(r.state) # <<>>
                                            THEN "reflect" ELSE "entry"]
                                /\ msg' = [msg EXCEPT ![p] = "welcome"]
                                /\ UNCHANGED <<exitcode, nextdate>>
    /\ UNCHANGED <<today, cursor, rundate, file0, answers, entered, nprompts, prev>>

\* variant: the state is written after every answer
Reflect_Saves(p, success) ==
    /\ pc[p] = "reflect"
    /\ answers' = [answers EXCEPT ![p] = Append(@, success)]
    /\ nprompts' = [nprompts EXCEPT ![p] = @ + 1]
    /\ IF success = Q
       THEN /\ pc' = [pc EXCEPT ![p] = "entry"]
            /\ UNCHANGED <<state, cursor>>
       ELSE /\ state' = [state EXCEPT ![p].goals =
                            SetOutcome(@, unfinished[p][cursor[p]], Mark(success))]
            /\ cursor' = [cursor EXCEPT ![p] = @ + 1]
            /\ pc' = [pc EXCEPT ![p] =
                        IF cursor[p] = Len(unfinished[p]) THEN "entry" ELSE "reflect"]
    /\ file' = WriteToStateFile(state'[p])
    /\ nwrites' = [nwrites EXCEPT ![p] = @ + 1]
    /\ UNCHANGED <<today, unfinished, exitcode, msg, nextdate, rundate, file0, loaded,
                   entered, nreads, prev>>

\* lines 131-137: one reflection prompt and its answer
Reflect(p, success) ==
    /\ pc[p] = "reflect"
    /\ answers' = [answers EXCEPT ![p] = Append(@, success)]
    /\ nprompts' = [nprompts EXCEPT ![p] = @ + 1]
    /\ IF success = Q
       THEN /\ pc' = [pc EXCEPT ![p] = "entry"]
            /\ UNCHANGED <<state, cursor>>
       ELSE /\ state' = [state EXCEPT ![p].goals =
                            SetOutcome(@, unfinished[p][cursor[p]], Mark(success))]
            /\ cursor' = [cursor EXCEPT ![p] = @ + 1]
            /\ pc' = [pc EXCEPT ![p] =
                        IF cursor[p] = Len(unfinished[p]) THEN "entry" ELSE "reflect"]
    /\ UNCHANGED <<today, file, unfinished, exitcode, msg, nextdate, rundate, file0, loaded,
                   entered, nreads, nwrites, prev>>

\* variant: the new goal is put at the head of the list
EnterGoal_Prepend(p, goal_name, checkpoints, failures) ==
    /\ pc[p] = "entry"
    /\ goal_name # Q
    /\ IntParses(checkpoints) /\ IntParses(failures)
    /\ Len(state[p].goals) < MaxGoals
    /\ state' = [state EXCEPT ![p].goals =
                    <<NewGoal(goal_name, checkpoints, failures, today)>> \o @]
    /\ entered' = [entered EXCEPT ![p] = Append(@, <<goal_name, checkpoints, failures>>)]
    /\ nprompts' = [nprompts EXCEPT ![p] = @ + 3]
    /\ UNCHANGED <<today, file, pc, unfinished, cursor, exitcode, msg, nextdate, rundate,
                   file0, loaded, answers, nreads, nwrites, prev>>

\* lines 143-157: a goal name other than q and two integers: the goal is appended
EnterGoal(p, goal_name, checkpoints, failures) ==
    /\ pc[p] = "entry"
    /\ goal_name # Q
    /\ IntParses(checkpoints) /\ IntParses(failures)
    /\ Len(state[p].goals) < MaxGoals
    /\ state' = [state EXCEPT ![p].goals =
                    Append(@, NewGoal(goal_name, checkpoints, failures, today))]
    /\ entered' = [entered EXCEPT ![p] = Append(@, <<goal_name, checkpoints, failures>>)]
    /\ nprompts' = [nprompts EXCEPT ![p] = @ + 3]
    /\ UNCHANGED <<today, file, pc, unfinished, cursor, exitcode, msg, nextdate, rundate,
                   file0, loaded, answers, nreads, nwrites, prev>>

\* variant: the state is written before the ValueError ends the process
EnterBadInt_Saves(p, goal_name, checkpoints, failures) ==
    /\ pc[p] = "entry"
    /\ goal_name # Q
    /\ ~(IntParses(checkpoints) /\ IntParses(failures))
    /\ nprompts' = [nprompts EXCEPT ![p] = @ + (IF IntParses(checkpoints) THEN 3 ELSE 2)]
    /\ file' = WriteToStateFile(state[p])
    /\ nwrites' = [nwrites EXCEPT ![p] = @ + 1]
    /\ pc' = [pc EXCEPT ![p] = "done"]
    /\ exitcode' = [exitcode EXCEPT ![p] = 1]
    /\ msg' = [msg EXCEPT ![p] = "traceback"]
    /\ UNCHANGED <<today, state, unfinished, cursor, nextdate, rundate, file0, loaded,
                   answers, entered, nreads, prev>>

\* lines 143-148: a goal name other than q and a text int() rejects: the
\* ValueError is not caught and ends the process
EnterBadInt(p, goal_name, checkpoints, failures) ==
    /\ pc[p] = "entry"
    /\ goal_name # Q
    /\ ~(IntParses(checkpoints) /\ IntParses(failures))
    /\ nprompts' = [nprompts EXCEPT ![p] = @ + (IF IntParses(checkpoints) THEN 3 ELSE 2)]
    /\ pc' = [pc EXCEPT ![p] = "done"]
    /\ exitcode' = [exitcode EXCEPT ![p] = 1]
    /\ msg' = [msg EXCEPT ![p] = "traceback"]
    /\ UNCHANGED <<today, file, state, unfinished, cursor, nextdate, rundate, file0, loaded,
                   answers, entered, nreads, nwrites, prev>>

\* variant: main returns 0 without the write
Finish_NoSave(p) ==
    /\ pc[p] = "entry"
    /\ nprompts' = [nprompts EXCEPT ![p] = @ + 1]
    /\ pc' = [pc EXCEPT ![p] = "done"]
    /\ exitcode' = [exitcode EXCEPT ![p] = 0]
    /\ msg' = [msg EXCEPT ![p] = "saved"]
    /\ UNCHANGED <<today, file, state, unfinished, cursor, nextdate, rundate, file0, loaded,
                   answers, entered, nreads, nwrites, prev>>

\* variant: goals that another run added to the file since the load are kept
Finish_Merge(p) ==
    /\ pc[p] = "entry"
    /\ nprompts' = [nprompts EXCEPT ![p] = @ + 1]
    /\ file' =
        IF file.kind = "json" /\ DocDecodes(file.doc)
                /\ Len(file.doc.goals) > Len(loaded[p].goals)
        THEN WriteToStateFile(
                State(state[p].goals \o
                        SubSeq(DecodeState(file.doc).goals, Len(loaded[p].goals) + 1,
                               Len(file.doc.goals)),
                      state[p].goals_last_updated))
        ELSE WriteToStateFile(state[p])
    /\ nwrites' = [nwrites EXCEPT ![p] = @ + 1]
    /\ pc' = [pc EXCEPT ![p] = "done"]
    /\ exitcode' = [exitcode EXCEPT ![p] = 0]
    /\ msg' = [msg EXCEPT ![p] = "saved"]
    /\ UNCHANGED <<today, state, unfinished, cursor, nextdate, rundate, file0, loaded,
                   answers, entered, nreads, prev>>

\* variant: q at the goal name prompt saves the state and the loop goes on
Finish_NoBreak(p) ==
    /\ pc[p] = "entry"
    /\ file' = WriteToStateFile(state[p])
    /\ UNCHANGED <<today, pc, state, unfinished, cursor, exitcode, msg, nextdate, rundate,
                   file0, loaded, answers, entered, nprompts, nreads, nwrites, prev>>

\* lines 143-145 and 159-164: q at the goal name prompt: the state is written
\* and main returns 0
Finish(p) ==
    /\ pc[p] = "entry"
    /\ nprompts' = [nprompts EXCEPT ![p] = @ + 1]
    /\ file' = WriteToStateFile(state[p])
    /\ nwrites' = [nwrites EXCEPT ![p] = @ + 1]
    /\ pc' = [pc EXCEPT ![p] = "done"]
    /\ exitcode' = [exitcode EXCEPT ![p] = 0]
    /\ msg' = [msg EXCEPT ![p] = "saved"]
    /\ UNCHANGED <<today, state, unfinished, cursor, nextdate, rundate, file0, loaded,
                   answers, entered, nreads, prev>>

\* midnight, between runs: a run is taken to start and end on one date
Tick ==
    /\ \A p \in Procs : ~Running(p)
    /\ today # LastDay
    /\ today' = NextDay(today)
    /\ UNCHANGED <<file, pc, state, unfinished, cursor, exitcode, msg, nextdate, rundate,
                   file0, loaded, answers, entered, nprompts, nreads, nwrites, prev>>

Step(p) ==
    \/ Invoke(p)
    \/ Gate(p)
    \/ \E success \in Answers : Reflect(p, success)
    \/ \E goal_name \in GoalNames, ints \in IntInputs :
            EnterGoal(p, goal_name, ints[1], ints[2])
    \/ \E goal_name \in GoalNames, ints \in IntInputs :
            EnterBadInt(p, goal_name, ints[1], ints[2])
    \/ Finish(p)

\* one process at a time: runs of main follow each other
Next == Step(1) \/ Tick

Spec == Init /\ [][Next]_vars

(* ---------------------------- single runs ------------------------------ *)

\* no process started yet, on date d, with one of the files fs as state.json
InitRun(d, fs) ==
    /\ today = d
    /\ file \in fs
    /\ pc = [p \in Procs |-> "idle"]
    /\ state = [p \in Procs |-> EmptyState]
    /\ unfinished = [p \in Procs |-> <<>>]
    /\ cursor = [p \in Procs |-> 1]
    /\ exitcode = [p \in Procs |-> -1]
    /\ msg = [p \in Procs |-> "none"]
    /\ nextdate = [p \in Procs |-> NoneDate]
    /\ rundate = [p \in Procs |-> NoneDate]
    /\ file0 = [p \in Procs |-> MissingFile]
    /\ loaded = [p \in Procs |-> EmptyState]
    /\ answers = [p \in Procs |-> <<>>]
    /\ entered = [p \in Procs |-> <<>>]
    /\ nprompts = [p \in Procs |-> 0]
    /\ nreads = [p \in Procs |-> 0]
    /\ nwrites = [p \in Procs |-> 0]
    /\ prev = [p \in Procs |-> NoneDate]

(* ---------------------------- a user who answers ----------------------- *)

\* one run on the first day of a month; state.json is missing or holds two
\* goals not reflected on
LiveFiles ==
    {MissingFile,
     WriteToStateFile(State(<<Goal(<<"E">>, SuccessCriteria(30, 1), PriorDate,
                                   AddDays(PriorDate, Delta30), "None"),
                              Goal(<<"F">>, SuccessCriteria(4, 0), PriorDate,
                                   AddDays(PriorDate, Delta30), "None")>>, NoneDate))}

InitLive == InitRun(FirstDate, LiveFiles)

NextLive == pc[1] # "done" /\ Step(1)

\* every reflection prompt gets an answer, and q is typed at a goal name
\* prompt sooner or later
SpecLive ==
    /\ InitLive
    /\ [][NextLive]_vars
    /\ WF_vars(\E success \in Answers : Reflect(1, success))
    /\ WF_vars(Finish(1))

(* ---------------------------- interrupted save ------------------------- *)

\* lines 143-145 and 102-104: q at the goal name prompt, and the process is
\* stopped inside write_to_state_file (killed, or json.dump raises on a full
\* disk) after open(STATE_FILE, "w") has truncated the file: the file is left
\* with zero bytes or with the part of the JSON text written so far
FinishInterrupted(p) ==
    /\ pc[p] = "entry"
    /\ nprompts' = [nprompts EXCEPT ![p] = @ + 1]
    /\ file' \in {EmptyFile, GarbageFile}
    /\ nwrites' = [nwrites EXCEPT ![p] = @ + 1]
    /\ pc' = [pc EXCEPT ![p] = "done"]
    /\ exitcode' = [exitcode EXCEPT ![p] = 1]
    /\ msg' = [msg EXCEPT ![p] = "interrupted"]
    /\ UNCHANGED <<today, state, unfinished, cursor, nextdate, rundate, file0, loaded,
                   answers, entered, nreads, prev>>

NextFault == Next \/ FinishInterrupted(1)

\* runs that follow each other, any of which may be stopped inside the save
SpecFault == Init /\ [][NextFault]_vars

(* ---------------------------- concurrent runs -------------------------- *)

\* two processes started on the first day of a month on the same state
\* file, which holds one goal not reflected on; each runs once
ConcFiles ==
    {WriteToStateFile(State(<<Goal(<<"E">>, SuccessCriteria(30, 1), PriorDate,
                                   AddDays(PriorDate, Delta30), "None")>>, PriorDate))}

InitConc == InitRun(FirstDate, ConcFiles)

NextConc == \E p \in Procs : pc[p] # "done" /\ Step(p)

SpecConc == InitConc /\ [][NextConc]_vars

(* ---------------------------- save and load ---------------------------- *)

\* State.write_to_state_file and State.from_state_file called on their own,
\* on any State and any file

\* longest goals list of the States saved
MaxIOGoals == 1

IONames == {<<"R">>, <<Quote>>, <<Backslash, "n">>}

IOCriteria == {SuccessCriteria(30, 1), SuccessCriteria(0 - 1, 0)}

IODates == {MkDate(2024, 2, 29), MkDate(999, 12, 2)}

IOGoals ==
    {Goal(n, c, d, AddDays(d, Delta30), ws) :
        n \in IONames, c \in IOCriteria, d \in IODates, ws \in {"None", "True", "False"}}

RECURSIVE IOGoalLists(_)
IOGoalLists(n) ==
    IF n = 0 THEN {<<>>}
    ELSE IOGoalLists(n - 1) \cup {Append(l, g) : l \in IOGoalLists(n - 1), g \in IOGoals}

IOStates == {State(gs, glu) : gs \in IOGoalLists(MaxIOGoals), glu \in IODates \cup {NoneDate}}

IOFiles ==
    {MissingFile, GarbageFile, JsonFile([goals |-> <<>>, goals_last_updated |-> JInt(5)]),
     WriteToStateFile(State(<<>>, PriorDate))}

InitIO ==
    /\ today = Epoch
    /\ file \in IOFiles
    /\ pc = [p \in Procs |-> "idle"]
    /\ \E s \in IOStates : state = [p \in Procs |-> IF p = 1 THEN s ELSE EmptyState]
    /\ unfinished = [p \in Procs |-> <<>>]
    /\ cursor = [p \in Procs |-> 1]
    /\ exitcode = [p \in Procs |-> -1]
    /\ msg = [p \in Procs |-> "none"]
    /\ nextdate = [p \in Procs |-> NoneDate]
    /\ rundate = [p \in Procs |-> NoneDate]
    /\ file0 = [p \in Procs |-> file]
    /\ loaded = [p \in Procs |-> EmptyState]
    /\ answers = [p \in Procs |-> <<>>]
    /\ entered = [p \in Procs |-> <<>>]
    /\ nprompts = [p \in Procs |-> 0]
    /\ nreads = [p \in Procs |-> 0]
    /\ nwrites = [p \in Procs |-> 0]
    /\ prev = [p \in Procs |-> NoneDate]

\* state.write_to_state_file()
Save(p) ==
    /\ pc[p] # "saved"
    /\ file' = WriteToStateFile(state[p])
    /\ pc' = [pc EXCEPT ![p] = "saved"]
    /\ nreads' = [nreads EXCEPT ![p] = 0]
    /\ UNCHANGED <<today, state, unfinished, cursor, exitcode, msg, nextdate, rundate, file0,
                   loaded, answers, entered, nprompts, nwrites, prev>>

\* State.from_state_file(); nreads counts the loads since the last save, up to 2
Load(p) ==
    LET r == FromStateFile(file)
    IN  /\ file' = r.file
        /\ msg' = [msg EXCEPT ![p] = r.result]
        /\ loaded' = [loaded EXCEPT ![p] = r.state]
        /\ pc' = [pc EXCEPT ![p] = IF pc[p] \in {"saved", "reloaded"} THEN "reloaded" ELSE "loaded"]
        /\ nreads' = [nreads EXCEPT ![p] = IF @ < 2 THEN @ + 1 ELSE @]
        /\ UNCHANGED <<today, state, unfinished, cursor, exitcode, nextdate, rundate, file0,
                       answers, entered, nprompts, nwrites, prev>>

NextIO == Save(1) \/ Load(1)

SpecIO == InitIO /\ [][NextIO]_vars

(* ---------------------------- properties ------------------------------- *)

\* the JSON document {"goals": [], "goals_last_updated": null}
EmptyDocument == [goals |-> <<>>, goals_last_updated |-> <<"n", "u", "l", "l">>]

\* the run of p got past the gate code: it waits at a prompt or has ended
PastGate(p) == pc[p] \in {"reflect", "entry", "done"}

\* the run of p returned 0
Succeeded(p) == pc[p] = "done" /\ exitcode[p] = 0

\* the run of p ended with a non-zero exit status
Failed(p) == pc[p] = "done" /\ exitcode[p] # 0

\* C1: the state file written by a run that returned 0 has
\* goals_last_updated equal to the date of that run
C1_LastUpdatedSet ==
    \A p \in Procs :
        Succeeded(p) =>
            /\ state[p].goals_last_updated = rundate[p]
            /\ file.kind = "json"
            /\ file.doc.goals_last_updated = <<Quote>> \o IsoFormat(rundate[p]) \o <<Quote>>

\* C2: a run on the date on which the run before it returned 0 halts at the
\* gate: exit 1, the next date is that date + 30 days, no prompt, no write
C2_OncePerDay ==
    \A p \in Procs :
        (pc[p] = "done" /\ prev[p] # NoneDate /\ prev[p] = rundate[p]) =>
            /\ exitcode[p] = 1
            /\ msg[p] = "already"
            /\ nextdate[p] = AddDays(rundate[p], 30)
            /\ nprompts[p] = 0
            /\ nwrites[p] = 0
            /\ file = file0[p]

\* C3: a run on a date whose day is not 1 ends with exit 1 without opening
\* the state file, whatever the file is; the file is as it was
C3_WrongDay ==
    \A p \in Procs :
        (PastGate(p) /\ rundate[p].day # 1) =>
            /\ pc[p] = "done"
            /\ exitcode[p] = 1
            /\ msg[p] = "wrongday"
            /\ nreads[p] = 0
            /\ nwrites[p] = 0
            /\ nprompts[p] = 0
            /\ file = file0[p]

C3_Witness ==
    \E p \in Procs :
        /\ pc[p] = "done"
        /\ rundate[p].day = 2
        /\ msg[p] = "wrongday"
        /\ file0[p] = MissingFile
        /\ file = MissingFile

\* C4 as claimed: after a run that ended in a fatal error the state file is
\* identical to the state file before the run
C4_AllOrNothing ==
    \A p \in Procs : Failed(p) => file = file0[p]

\* C4 amended: after a run that ended in a fatal error the state file is
\* identical to the state file before the run, except that a run which got
\* past the day gate and found no state file leaves the file holding the
\* empty state
C4_AllOrNothingAmended ==
    \A p \in Procs :
        Failed(p) =>
            \/ file = file0[p]
            \/ /\ file0[p].kind = "missing"
               /\ rundate[p].day = 1
               /\ file = [kind |-> "json", doc |-> EmptyDocument]

\* a run that answered a reflection, entered a goal and then died on a text
\* that is no integer
C4_Witness ==
    \E p \in Procs :
        /\ Failed(p)
        /\ msg[p] = "traceback"
        /\ Len(answers[p]) >= 1
        /\ Len(entered[p]) >= 1
        /\ file0[p].kind = "json"
        /\ file = file0[p]

\* C5: a day-1 run whose loaded goals_last_updated is the date of the run
\* ends with exit 1 and the date 30 days later printed, without a prompt,
\* with the goals as loaded and without a write to the state file
C5_AlreadyUpdated ==
    \A p \in Procs :
        (PastGate(p) /\ rundate[p].day = 1 /\ loaded[p].goals_last_updated = rundate[p]) =>
            /\ pc[p] = "done"
            /\ exitcode[p] = 1
            /\ msg[p] = "already"
            /\ nextdate[p] = AddDays(rundate[p], 30)
            /\ nprompts[p] = 0
            /\ state[p].goals = loaded[p].goals
            /\ nwrites[p] = 0
            /\ file = file0[p]

C5_Witness ==
    \E p \in Procs :
        /\ pc[p] = "done"
        /\ msg[p] = "already"
        /\ rundate[p] = MkDate(2024, 1, 1)
        /\ nextdate[p] = MkDate(2024, 1, 31)
        /\ loaded[p].goals # <<>>

\* C6: a day-1 run that finds a state file which is not JSON gets no State:
\* it ends with exit 1 after the corruption message, without a prompt, and
\* the file is as it was
C6_Corrupted ==
    \A p \in Procs :
        (PastGate(p) /\ rundate[p].day = 1 /\ file0[p].kind \in {"empty", "garbage"}) =>
            /\ pc[p] = "done"
            /\ exitcode[p] = 1
            /\ msg[p] = "corrupted"
            /\ state[p] = EmptyState /\ loaded[p] = EmptyState
            /\ nprompts[p] = 0
            /\ nwrites[p] = 0
            /\ file = file0[p]

C6_Witness ==
    \E p \in Procs :
        /\ pc[p] = "done"
        /\ msg[p] = "corrupted"
        /\ file0[p] = GarbageFile
        /\ file = GarbageFile

\* C7: a load that finds no state file returns the empty State, and the
\* file then exists and holds {"goals": [], "goals_last_updated": null}
C7_MissingFile ==
    \A p \in Procs :
        (PastGate(p) /\ rundate[p].day = 1 /\ file0[p].kind = "missing") =>
            /\ loaded[p] = [goals |-> <<>>, goals_last_updated |-> NoneDate]
            /\ nwrites[p] >= 1
            /\ file.kind = "json"
            /\ nprompts[p] = 0 => file.doc = EmptyDocument

C7_Witness ==
    \E p \in Procs :
        /\ pc[p] = "entry"
        /\ nprompts[p] = 0
        /\ file0[p] = MissingFile
        /\ state[p].goals = <<>>
        /\ file = [kind |-> "json", doc |-> EmptyDocument]

\* positions of the goals of s that are not reflected on yet
Pending(s) ==
    SelectSeq([i \in 1..Len(s.goals) |-> i], LAMBDA i : s.goals[i].was_successful = "None")

\* the JSON literal of a was_successful value
Literal(ws) ==
    CASE ws = "None" -> <<"n", "u", "l", "l">>
      [] ws = "True" -> <<"t", "r", "u", "e">>
      [] ws = "False" -> <<"f", "a", "l", "s", "e">>

\* C8: the unset goals are asked about once each in list order; y marks the
\* goal true, n marks it false, q ends the phase and leaves the goal asked
\* about and the later ones unset; the marks are in the file the run writes
C8_Reflection ==
    \A p \in Procs :
        PastGate(p) =>
            LET A == answers[p]
                U == Pending(loaded[p])
            IN  /\ Len(A) <= Len(U)
                /\ \A k \in 1..Len(A) : A[k] = Q => k = Len(A)
                /\ pc[p] = "reflect" => Len(A) < Len(U) /\ \A k \in 1..Len(A) : A[k] # Q
                /\ (pc[p] = "entry" \/ Succeeded(p)) =>
                        Len(A) = Len(U) \/ (A # <<>> /\ A[Len(A)] = Q)
                /\ \A k \in 1..Len(U) :
                        LET ws == state[p].goals[U[k]].was_successful
                        IN  /\ (k <= Len(A) /\ A[k] = <<"y">>) => ws = "True"
                            /\ (k <= Len(A) /\ A[k] = <<"n">>) => ws = "False"
                            /\ (k > Len(A) \/ A[k] = Q) => ws = "None"
                /\ Succeeded(p) =>
                        /\ file.kind = "json"
                        /\ \A i \in 1..Len(loaded[p].goals) :
                                file.doc.goals[i].was_successful =
                                    Literal(state[p].goals[i].was_successful)

\* two unset goals, y for the first and q at the second, and the file written
C8_Witness ==
    \E p \in Procs :
        /\ Succeeded(p)
        /\ Len(Pending(loaded[p])) = 2
        /\ answers[p] = <<Y, Q>>
        /\ file.doc.goals[1].was_successful = JTrue
        /\ file.doc.goals[2].was_successful = JNull

\* C9: a goal marked true or false is not asked about again and keeps its
\* mark, in the run and in the state file over the runs that follow
C9_Final ==
    [][\A p \in Procs :
          /\ (pc[p] \in {"reflect", "entry"}) =>
                \A i \in 1..Len(state[p].goals) :
                    state[p].goals[i].was_successful # "None" =>
                        /\ i <= Len(state'[p].goals)
                        /\ state'[p].goals[i].was_successful = state[p].goals[i].was_successful
          /\ (pc[p] = "reflect" /\ nprompts'[p] > nprompts[p]) =>
                loaded[p].goals[unfinished[p][cursor[p]]].was_successful = "None"
          /\ file.kind = "json" =>
                \A i \in 1..Len(file.doc.goals) :
                    file.doc.goals[i].was_successful \in {JTrue, JFalse} =>
                        /\ file'.kind = "json"
                        /\ i <= Len(file'.doc.goals)
                        /\ file'.doc.goals[i].was_successful = file.doc.goals[i].was_successful
      ]_vars

\* a run that loaded a goal marked true and an unset goal, asked about the
\* unset one and wrote the file
C9_Witness ==
    \E p \in Procs :
        /\ Succeeded(p)
        /\ Len(loaded[p].goals) = 2
        /\ loaded[p].goals[1].was_successful = "True"
        /\ answers[p] = <<<<"n">>>>
        /\ file.doc.goals[1].was_successful = JTrue
        /\ file.doc.goals[2].was_successful = JFalse

\* the integer written by the texts typed at the integer prompts
Typed(text) == CASE text = <<"1">> -> 1 [] text = <<" ", "3">> -> 3

\* C10: each name other than q with two integers appends one Goal with that
\* name and criteria, starts_at today, ends_at 30 days later and
\* was_successful unset; q appends nothing; k entries add k goals in order
C10_Entry ==
    \A p \in Procs :
        PastGate(p) =>
            LET base == Len(loaded[p].goals)
            IN  /\ Len(state[p].goals) = base + Len(entered[p])
                /\ \A k \in 1..Len(entered[p]) :
                        /\ entered[p][k][1] # Q
                        /\ state[p].goals[base + k] =
                                [name |-> entered[p][k][1],
                                 success_criteria |->
                                    [num_checkpoints |-> Typed(entered[p][k][2]),
                                     permitted_failures |-> Typed(entered[p][k][3])],
                                 starts_at |-> rundate[p],
                                 ends_at |-> AddDays(rundate[p], 30),
                                 was_successful |-> "None"]
                /\ Succeeded(p) =>
                        /\ file.kind = "json"
                        /\ Len(file.doc.goals) = base + Len(entered[p])

\* two goals entered, then q
C10_Witness ==
    \E p \in Procs :
        /\ Succeeded(p)
        /\ Len(loaded[p].goals) = 0
        /\ entered[p] = << <<<<"R">>, <<" ", "3">>, <<"1">>>>, <<<<"R">>, <<"1">>, <<" ", "3">>>> >>
        /\ state[p].goals[1].success_criteria = [num_checkpoints |-> 3, permitted_failures |-> 1]
        /\ state[p].goals[2].starts_at = MkDate(2024, 1, 1)
        /\ state[p].goals[2].ends_at = MkDate(2024, 1, 31)
        /\ Len(file.doc.goals) = 2

\* C11: the goals in the state file after a run start with the goals that
\* were in it before the run, in the same order and with name, criteria and
\* dates unchanged; was_successful only goes from null to true or false; a
\* goal the run added is written with was_successful null
C11_AppendOnly ==
    \A p \in Procs :
        (PastGate(p) /\ file0[p].kind = "json") =>
            /\ file.kind = "json"
            /\ Len(file.doc.goals) >= Len(file0[p].doc.goals)
            /\ \A i \in 1..Len(file0[p].doc.goals) :
                    LET old == file0[p].doc.goals[i]
                        new == file.doc.goals[i]
                    IN  /\ new.name = old.name
                        /\ new.success_criteria = old.success_criteria
                        /\ new.starts_at = old.starts_at
                        /\ new.ends_at = old.ends_at
                        /\ \/ new.was_successful = old.was_successful
                           \/ /\ old.was_successful = <<"n", "u", "l", "l">>
                              /\ new.was_successful \in {JTrue, JFalse}
            /\ \A i \in (Len(file0[p].doc.goals) + 1)..Len(file.doc.goals) :
                    file.doc.goals[i].was_successful = <<"n", "u", "l", "l">>

\* a run that found one unset goal, marked it and added a goal
C11_Witness ==
    \E p \in Procs :
        /\ Succeeded(p)
        /\ file0[p].kind = "json"
        /\ Len(file0[p].doc.goals) = 1
        /\ file0[p].doc.goals[1].was_successful = JNull
        /\ Len(file.doc.goals) = 2
        /\ file.doc.goals[1].was_successful = JTrue
        /\ file.doc.goals[1].name = file0[p].doc.goals[1].name
        /\ file.doc.goals[2].was_successful = JNull

C13_LoadIdempotent ==
    [][\A p \in Procs :
          (nreads[p] >= 1 /\ nreads'[p] = 2) =>
                /\ msg'[p] = msg[p]
                /\ loaded'[p] = loaded[p]
                /\ file' = file
      ]_vars

\* two loads, the first of which found no file
C13_Witness ==
    \E p \in Procs :
        /\ nreads[p] = 2
        /\ pc[p] = "loaded"
        /\ file0[p] = MissingFile
        /\ msg[p] = "state"
        /\ loaded[p] = [goals |-> <<>>, goals_last_updated |-> NoneDate]
        /\ file = [kind |-> "json", doc |-> EmptyDocument]

\* the run of p wrote the state file at line 159 (the write of a load that
\* found no file is not that write)
FinalWrite(p) ==
    nwrites[p] > (IF file0[p].kind = "missing" /\ rundate[p].day = 1 THEN 1 ELSE 0)

\* the run of p went through the reflection and entry phases
RanThrough(p) ==
    /\ msg[p] \notin {"wrongday", "corrupted", "already"}
    /\ Len(answers[p]) = Len(Pending(loaded[p]))
            \/ (answers[p] # <<>> /\ answers[p][Len(answers[p])] = Q)
    /\ nprompts[p] = Len(answers[p]) + 3 * Len(entered[p]) + 1

\* C14: main returns 0 exactly when the run went through reflection and
\* entry and wrote the full state; on the wrong day, on an already updated
\* state and on a file that is not JSON it returns 1 without that write
C14_ExitCode ==
    \A p \in Procs :
        pc[p] = "done" =>
            /\ exitcode[p] \in {0, 1}
            /\ exitcode[p] = 0 <=> (RanThrough(p) /\ FinalWrite(p))
            /\ exitcode[p] = 0 => (file.kind = "json" /\ DecodeState(file.doc) = state[p])
            /\ rundate[p].day # 1 => (exitcode[p] = 1 /\ ~FinalWrite(p))
            /\ (rundate[p].day = 1 /\ loaded[p].goals_last_updated = rundate[p]) =>
                    (exitcode[p] = 1 /\ ~FinalWrite(p))
            /\ (rundate[p].day = 1 /\ file0[p].kind \in {"empty", "garbage"}) =>
                    (exitcode[p] = 1 /\ ~FinalWrite(p))

\* a run that answered a reflection, entered a goal and returned 0
C14_Witness ==
    \E p \in Procs :
        /\ pc[p] = "done"
        /\ exitcode[p] = 0
        /\ answers[p] # <<>>
        /\ entered[p] # <<>>
        /\ nwrites[p] = 1
        /\ Len(file.doc.goals) = 2

\* C15: a goal typed with more permitted failures than checkpoints is
\* accepted: it is appended with the numbers as typed and written to the file
C15_NotValidated ==
    \A p \in Procs :
        PastGate(p) =>
                \A k \in 1..Len(entered[p]) :
                    LET i == Len(loaded[p].goals) + k
                    IN  Typed(entered[p][k][3]) > Typed(entered[p][k][2]) =>
                            /\ state[p].goals[i].success_criteria.num_checkpoints =
                                    Typed(entered[p][k][2])
                            /\ state[p].goals[i].success_criteria.permitted_failures =
                                    Typed(entered[p][k][3])
                            /\ Succeeded(p) =>
                                    /\ file.doc.goals[i].success_criteria.num_checkpoints = <<"1">>
                                    /\ file.doc.goals[i].success_criteria.permitted_failures = <<"3">>

\* 3 permitted failures on 1 checkpoint, in the file
C15_Witness ==
    \E p \in Procs :
        /\ Succeeded(p)
        /\ entered[p] = << <<<<"R">>, <<"1">>, <<" ", "3">>>> >>
        /\ Len(file.doc.goals) = 1
        /\ file.doc.goals[1].success_criteria =
                [num_checkpoints |-> <<"1">>, permitted_failures |-> <<"3">>]

\* C16: a save that is stopped after the file was opened for writing leaves
\* the state file with the complete content it had before the save
C16_SaveKeepsPrior ==
    [][\A p \in Procs :
          (pc[p] = "entry" /\ msg'[p] = "interrupted") => file' = file
      ]_vars

\* the phases of a run: GATE_CHECK is gate, REFLECTION is reflect, ENTRY is
\* entry, PERSIST and DONE are the step to done with exit status 0.
\* A step of p moves forward, asks the reflection questions only in the
\* reflection phase and for goals only in the entry phase, and writes the
\* final state once, in the step that ends the entry loop
PhaseStep(p) ==
    /\ \/ pc'[p] = pc[p]
       \/ pc[p] \in {"idle", "done"} /\ pc'[p] = "gate"
       \/ pc[p] = "gate" /\ pc'[p] \in {"reflect", "entry", "done"}
       \/ pc[p] = "reflect" /\ pc'[p] = "entry"
       \/ pc[p] = "entry" /\ pc'[p] = "done"
    /\ pc'[p] # "gate" =>
            /\ answers'[p] # answers[p] => pc[p] = "reflect"
            /\ entered'[p] # entered[p] => pc[p] = "entry"
            /\ nprompts'[p] # nprompts[p] => pc[p] \in {"reflect", "entry"}
            /\ nwrites'[p] # nwrites[p] =>
                    \/ pc[p] = "gate" /\ file.kind = "missing"
                    \/ pc[p] = "entry" /\ pc'[p] = "done" /\ exitcode'[p] = 0
    /\ (pc[p] = "entry" /\ pc'[p] = "done" /\ exitcode'[p] = 0) =>
            (nwrites'[p] = nwrites[p] + 1 /\ file'.kind = "json")

\* the step of p ends the run with a non-zero exit status
EarlyExit(p) == pc[p] # "done" /\ pc'[p] = "done" /\ exitcode'[p] # 0

\* C17 as claimed: a run only moves forward through the phases, and it ends
\* early only in the gate phase (wrong day, already updated, state file that
\* cannot be loaded)
C17_PhaseOrder ==
    [][\A p \in Procs : PhaseStep(p) /\ (EarlyExit(p) => pc[p] = "gate")]_vars

\* C17 amended: a run only moves forward through the phases, and it ends
\* early only in the gate phase or, in the entry phase, on a text typed at
\* an integer prompt that is no integer
C17_PhaseOrderAmended ==
    [][\A p \in Procs :
          /\ PhaseStep(p)
          /\ EarlyExit(p) =>
                \/ pc[p] = "gate"
                \/ pc[p] = "entry" /\ msg'[p] = "traceback" /\ nwrites'[p] = nwrites[p]
      ]_vars

\* a run that went through every phase: one reflection answer, one goal
\* entered, one write
C17_Witness ==
    \E p \in Procs :
        /\ pc[p] = "done"
        /\ exitcode[p] = 0
        /\ Len(answers[p]) = 1
        /\ Len(entered[p]) = 1
        /\ nprompts[p] = 5
        /\ nwrites[p] = 1

\* C18: when runs overlap, the file after a run's write is exactly the
\* state of that run: what it loaded, its own marks and its own new goals,
\* and nothing another run wrote in between
C18_LastWriterWins ==
    [][\A p \in Procs :
          (pc[p] = "entry" /\ pc'[p] = "done" /\ exitcode'[p] = 0) =>
                /\ file'.kind = "json"
                /\ DecodeState(file'.doc) = state[p]
                /\ Len(file'.doc.goals) = Len(loaded[p].goals) + Len(entered[p])
      ]_vars

\* both runs loaded the one-goal file; run 1 marked the goal and added a
\* goal, run 2 did neither and wrote last: the file has one unmarked goal
C18_Witness ==
    /\ Succeeded(1) /\ Succeeded(2)
    /\ loaded[1] = loaded[2]
    /\ Len(loaded[1].goals) = 1
    /\ answers[1] = <<Y>> /\ Len(entered[1]) = 1
    /\ answers[2] = <<Q>> /\ entered[2] = <<>>
    /\ Len(file.doc.goals) = 1
    /\ file.doc.goals[1].was_successful = JNull

\* C19: a run that got past the gate ends, given that q is typed at a goal
\* name prompt sooner or later; the reflection phase asks at most one
\* question for each unset goal
C19_Terminates ==
    /\ [](\A p \in Procs : PastGate(p) => Len(answers[p]) <= Len(Pending(loaded[p])))
    /\ \A p \in Procs : (pc[p] \in {"reflect", "entry"}) ~> (pc[p] = "done")

\* a run that asked two questions and ended on q at the goal name prompt
C19_Witness ==
    \E p \in Procs :
        /\ pc[p] = "done"
        /\ Len(answers[p]) = 2
        /\ Len(Pending(loaded[p])) = 2
        /\ nprompts[p] = 3

\* C20: an answer that is neither y nor q (n, the empty text, Y, yes) marks
\* the goal asked about false and the next goal is asked about; only q
\* leaves a goal that was asked about unset; no goal is asked about twice
C20_AnswerDefault ==
    \A p \in Procs :
        PastGate(p) =>
            LET A == answers[p]
                U == Pending(loaded[p])
            IN  /\ Len(A) <= Len(U)
                /\ \A k \in 1..Len(A) :
                        LET ws == state[p].goals[U[k]].was_successful
                        IN  /\ A[k] \notin {<<"y">>, <<"q">>} => ws = "False"
                            /\ A[k] # <<"q">> => ws # "None"
                            /\ ws = "None" => A[k] = <<"q">>
                /\ pc[p] = "reflect" =>
                        /\ cursor[p] = Len(A) + 1
                        /\ state[p].goals[U[cursor[p]]].was_successful = "None"

\* Y for the first goal and yes for the second: both are written as false
C20_Witness ==
    \E p \in Procs :
        /\ Succeeded(p)
        /\ answers[p] = << <<"Y">>, <<"y", "e", "s">> >>
        /\ file.doc.goals[1].was_successful = JFalse
        /\ file.doc.goals[2].was_successful = JFalse

====
